---- MODULE Spec2Model ----
(***************************************************************************)
(* A model of lil's store (internal/store): the in-memory cache over the   *)
(* SQLite tables urls and device_urls, the write buffer with its mutex,    *)
(* the hand-off channel and the single flush worker, driven by concurrent  *)
(* CreateShortURL, GetRedirectData and DeleteURL calls.                    *)
(*                                                                         *)
(* Every step taken under one lock acquisition, and every SQL statement or *)
(* transaction, is one atomic action; a call is a sequence of such steps,  *)
(* so calls of different clients interleave between them.                  *)
(***************************************************************************)
EXTENDS Integers, Sequences, FiniteSets, TLC

(* ------------------------------ bounds --------------------------------- *)
NumClients == 2
NumCodes == 2
MaxTime == 2
MaxCalls == 3
\* Conf.BufferSize (db.buffer_size): records buffered before a size-triggered hand-off.
bufferSize == 2
\* Capacity of flushChan: make(chan []models.URLData, 100), scaled down.
flushChanCap == 1
\* const maxRetries = 3 in flushWithRetry.
maxRetries == 3
\* Config.NumWorkers (analytics.num_workers).
numWorkers == 2
\* Capacity of eventChan: make(chan Event, 1000), scaled down.
eventChanCap == 1
\* The number of configured dispatchers.
NumSinks == 2

Clients == 1..NumClients
\* The short codes generateRandomString can produce, which are also the slugs used.
Codes == 1..NumCodes
\* The url argument: each client shortens a url of its own, so a record's url tells
\* which call created it.
URLOf == [p \in Clients |-> p]
\* The expiry argument: 0 (none) or a positive duration.
Expiries == {0, 1}
Platforms == {"android", "ios", "macos", "web"}
\* The deviceURLs argument: a set of <<platform, url>> pairs, one per platform; none,
\* or a valid entry with one of an unknown platform and one with an empty url.
DeviceInputs == {{}, {<<"android", 11>>, <<"tv", 15>>, <<"ios", 0>>}}

None == "none"
\* A nil DeviceURLs map (not yet loaded), as opposed to a loaded, possibly empty one:
\* a marker that is no set of device rows.
Nil == {<<"nil", 0>>}
\* ExpiresAt == nil
NoExpiry == 0
Free == 0

AWorkers == 1..numWorkers
\* m.dispatchers, in the order the worker's loop ranges over them.
Sinks == 1..NumSinks
\* Events are numbered by the Track call that carries them.
EventIds == 1..MaxCalls
\* The User-Agent of a request, by what useragent.Parse makes of it.
UserAgents == {"android", "ios", "macos", "web"}
\* The device rows of a record created earlier with device URLs.
DeviceMaps ==
    {{}, {<<"android", 11>>}, {<<"web", 13>>}, {<<"macos", 14>>},
     {<<"ios", 12>>, <<"macos", 14>>},
     {<<"android", 11>>, <<"ios", 12>>, <<"macos", 14>>, <<"web", 13>>}}

VARIABLES
    now,          \* the wall clock read by time.Now()
    dbOk,         \* whether the database executes statements or returns an error
    cache,        \* s.cache: code -> URLData, or NoRec for no entry
    urls,         \* table urls: code -> row, or NoRow for no row
    device_urls,  \* table device_urls: code -> set of <<platform, url>> rows
    writeBuf,     \* s.writeBuf
    bufMu,        \* holder of s.bufMu, or Free
    flushChan,    \* s.flushChan: the batches handed off and not yet received
    w,            \* the flush worker: its position, the batch it holds, the attempt
    cl,           \* each client's call: position, arguments, locals, result
    calls,        \* the number of calls started
    \* History variables: they record what calls did and decide no step.
    mine,         \* per client: the <<code, url>> its last successful create returned,
                  \* until a delete or an expiry of that code
    raced,        \* per client: the clients whose current create of the same code had
                  \* passed the collision check when this client's create passed it
    expiredSeen,  \* codes a GetRedirectData removed as expired while no create of the
                  \* code was in progress, until a create of the code passes the
                  \* collision check
    acct,         \* successful creates - successful deletes - lazy expirations
    unflushed,    \* records appended to the write buffer that were neither committed
                  \* by a flush nor dropped at a full hand-off channel
    \* Shutdown of the store.
    closing,      \* Store.Close: "no", "waiting" (done and flushChan closed, waiting
                  \* for workerDone) or "returned"
    \* The analytics manager and the redirect handler.
    manager,      \* app.analytics != nil
    sinksClosed,  \* how many of m.dispatchers Manager.Close has closed, in their order
    eventChan,    \* m.eventChan
    aw,           \* each analytics worker: position, event, dispatcher index, and
                  \* whether a Send for the event has returned an error
    ctxDone,      \* whether the context given to Start is cancelled
    http,         \* each client's last redirect response: status, Location, and of
                  \* the request: its User-Agent, the record resolved, what Track did
                  \* with its event, and the event's number
    \* History variables of the analytics manager.
    sends,        \* per event and dispatcher: the number of Send invocations
    tracked,      \* the number of Track calls
    dropped,      \* the events dropped at the full event channel
    \* Configuration, metrics and what the later properties need.
    chanCap,      \* cap(s.flushChan)
    stamp,        \* per client: the two clock readings CreateShortURL builds a record
                  \* from: position, expiry argument, expiresAt, CreatedAt
    appends,      \* the number of appends to s.writeBuf so far
    gauge         \* metrics.URLsStoredGauge

dbVars == <<urls, device_urls>>
bufVars == <<writeBuf, bufMu, flushChan>>
envVars == <<now, dbOk>>
hist == <<mine, raced, expiredSeen, acct, unflushed>>
\* What most steps leave alone: the channel's capacity, the clock readings of a
\* create, the count of buffer appends, the gauge.
auxVars == <<chanCap, stamp, appends, gauge>>
anVars == <<manager, sinksClosed, eventChan, aw, ctxDone, http, sends, tracked, dropped>>
vars == <<now, dbOk, cache, urls, device_urls, writeBuf, bufMu, flushChan, w, cl, calls,
          mine, raced, expiredSeen, acct, unflushed, closing,
          manager, sinksClosed, eventChan, aw, ctxDone, http, sends, tracked, dropped,
          chanCap, stamp, appends, gauge>>

(* ------------------------------ helpers -------------------------------- *)
\* models.URLData as cached.
URLData(u, e, d) == [url |-> u, exp |-> e, dev |-> d]

\* A record of the write buffer: URLData built by CreateShortURL, DeviceURLs nil; n is
\* its position in the order of the appends to s.writeBuf.
BufRec(c, u, e, n) == [code |-> c, url |-> u, exp |-> e, n |-> n]

\* A row of table urls.
Row(u, e) == [url |-> u, exp |-> e]

\* No cache entry, no row: url 0 stands for the empty url, which no record has.
NoRec == URLData(0, NoExpiry, Nil)
NoRow == Row(0, NoExpiry)

IdleClient == [pc |-> "idle", op |-> None, code |-> 0, url |-> 0, exp |-> NoExpiry,
               dev |-> {}, snap |-> NoRec, res |-> None]

IdleWorker == [pc |-> "idle", batch |-> <<>>, attempt |-> 0]

\* len(s.cache)
CacheLen(m) == Cardinality({c \in Codes : m[c] # NoRec})

\* No clock reading taken yet.
IdleStamp == [pc |-> "idle", expiry |-> 0, expiresAt |-> NoExpiry, createdAt |-> 0]

SeqCodes(s) == {s[i].code : i \in 1..Len(s)}

\* ValidDeviceURLs, had the loop skipped nothing.
AllDeviceURLs(d) == d

\* The device rows CreateShortURL inserts: invalid platforms and empty urls are skipped.
ValidDeviceURLs(d) == {x \in d : x[1] \in Platforms /\ x[2] # 0}

\* time.Now().After(*urlData.ExpiresAt)
Expired(r, t) == r.exp # NoExpiry /\ t > r.exp

\* A client starts a call when it is in none, while the store is open.
CanStart(p) == cl[p].pc \in {"idle", "done"} /\ calls < MaxCalls /\ closing = "no"

Return(p, op, c, result, rec) ==
    [IdleClient EXCEPT !.pc = "done", !.op = op, !.code = c, !.res = result, !.snap = rec]

(* --------------------------- history helpers --------------------------- *)
\* A delete or an expiry of code c ends every client's claim on it.
NoMine == <<0, 0>>

Forget(m, c) == [q \in Clients |-> IF m[q][1] = c THEN NoMine ELSE m[q]]

\* Client p starts a new call: its previous call is no longer anyone's peer.
NewCall(r, p) == [q \in Clients |-> IF q = p THEN {} ELSE r[q] \ {p}]

\* The clients whose create of code c is past the collision check and not yet returned.
InFlightCreates(c) ==
    {q \in Clients : cl[q].op = "create" /\ cl[q].code = c
                     /\ cl[q].pc \in {"cr_tx", "cr_buf", "cr_send", "cr_cache"}}

\* analytics.Event: the fields that tell events apart.
Event(i, c, t) == [id |-> i, code |-> c, target |-> t]

NoEvent == Event(0, 0, 0)

IdleAWorker == [pc |-> "idle", evt |-> NoEvent, d |-> 0, failed |-> FALSE]

\* No response written yet.
NoResp == [status |-> 0, loc |-> 0, ua |-> "", rec |-> NoRec, track |-> "none", evt |-> 0]

(* ------------------------------- Init ---------------------------------- *)
\* NewManager and Start: an empty event channel, the workers at their select.
InitAnalytics ==
    /\ sinksClosed = 0
    /\ eventChan = <<>>
    /\ aw = [k \in AWorkers |-> IdleAWorker]
    /\ ctxDone = FALSE
    /\ http = [p \in Clients |-> NoResp]
    /\ sends = [e \in EventIds |-> [d \in Sinks |-> 0]]
    /\ tracked = 0
    /\ dropped = {}

\* New: an empty database, an empty cache, the gauge set to its size.
InitStore ==
    /\ closing = "no"
    /\ manager = TRUE
    /\ InitAnalytics
    /\ stamp = [p \in Clients |-> IdleStamp]
    /\ appends = 0
    /\ gauge = 0
    /\ now = 0
    /\ dbOk = TRUE
    /\ cache = [c \in Codes |-> NoRec]
    /\ urls = [c \in Codes |-> NoRow]
    /\ device_urls = [c \in Codes |-> {}]
    /\ writeBuf = <<>>
    /\ bufMu = Free
    /\ flushChan = <<>>
    /\ w = IdleWorker
    /\ cl = [p \in Clients |-> IdleClient]
    /\ calls = 0
    /\ mine = [p \in Clients |-> NoMine]
    /\ raced = [p \in Clients |-> {}]
    /\ expiredSeen = {}
    /\ acct = 0
    /\ unflushed = {}

Init == InitStore /\ chanCap = flushChanCap

(* --------------------------- CreateShortURL ---------------------------- *)
\* Exists, had the collision check asked the table urls instead of the cache.
ExistsInTable(c) == urls[c] # NoRow

\* _, exists := s.cache[shortCode], read under RLock.
Exists(c) == cache[c] # NoRec

\* expiresAt: time.Now().Add(expiry) if expiry > 0, else nil.
ExpiresAt(e) == IF e > 0 THEN now + e ELSE NoExpiry

\* The collision check and what follows it up to the choice of path; p's call is of
\* code c, already counted as started.
CheckExists(p, c, u, e, d, r) ==
    IF Exists(c)
    THEN /\ cl' = [cl EXCEPT ![p] = Return(p, "create", c, "exists", NoRec)]
         /\ raced' = r
         /\ UNCHANGED expiredSeen
    ELSE /\ cl' = [cl EXCEPT ![p] = [IdleClient EXCEPT
                        !.pc = IF Cardinality(d) > 0 THEN "cr_tx" ELSE "cr_buf",
                        !.op = "create", !.code = c, !.url = u,
                        !.exp = ExpiresAt(e), !.dev = d]]
         /\ raced' = [r EXCEPT ![p] = InFlightCreates(c) \ {p}]
         /\ expiredSeen' = expiredSeen \ {c}

\* CreateShortURL with a slug: the short code is the slug, checked once.
CreateSlug(p) ==
    /\ CanStart(p)
    /\ \E c \in Codes, e \in Expiries, d \in DeviceInputs :
          CheckExists(p, c, URLOf[p], e, d, NewCall(raced, p))
    /\ calls' = calls + 1
    /\ mine' = [mine EXCEPT ![p] = NoMine]
    /\ UNCHANGED <<envVars, auxVars, closing, anVars, cache, dbVars, bufVars, w, acct, unflushed>>

\* One turn of the generation loop: a random code, kept if the cache does not hold it.
GenTurn(p, u, e, d) ==
    \E c \in Codes :
        cl' = [cl EXCEPT ![p] = [IdleClient EXCEPT
                  !.pc = IF Exists(c) THEN "cr_gen" ELSE "cr_check",
                  !.op = "create", !.code = IF Exists(c) THEN 0 ELSE c,
                  !.url = u, !.exp = e, !.dev = d]]

\* CreateShortURL without a slug: the first turn of the loop.
CreateRandom(p) ==
    /\ CanStart(p)
    /\ \E e \in Expiries, d \in DeviceInputs : GenTurn(p, URLOf[p], e, d)
    /\ calls' = calls + 1
    /\ mine' = [mine EXCEPT ![p] = NoMine]
    /\ raced' = NewCall(raced, p)
    /\ UNCHANGED <<envVars, auxVars, closing, anVars, cache, dbVars, bufVars, w, expiredSeen, acct, unflushed>>

\* A further turn of the loop, after a collision.
GenRetry(p) ==
    /\ cl[p].pc = "cr_gen"
    /\ GenTurn(p, cl[p].url, cl[p].exp, cl[p].dev)
    /\ UNCHANGED <<envVars, auxVars, closing, anVars, cache, dbVars, bufVars, w, calls, hist>>

\* The check after the loop, under a second RLock.
CreateCheck(p) ==
    /\ cl[p].pc = "cr_check"
    /\ CheckExists(p, cl[p].code, cl[p].url, cl[p].exp, cl[p].dev, raced)
    /\ UNCHANGED <<envVars, auxVars, closing, anVars, cache, dbVars, bufVars, w, calls, mine, acct, unflushed>>

\* Whether the transaction of the synchronous path commits: the database executes
\* it, urls has no row with this primary key and device_urls none with the primary
\* key (short_code, platform) of a row to insert.
TxCommits(c, rows) ==
    /\ dbOk
    /\ urls[c] = NoRow
    /\ \A x \in rows : \A y \in device_urls[c] : y[1] # x[1]

\* The synchronous path: the urls row and the valid device rows in one transaction.
CreateTx(p) ==
    /\ cl[p].pc = "cr_tx"
    /\ LET c == cl[p].code
           rows == ValidDeviceURLs(cl[p].dev)
       IN IF TxCommits(c, rows)
          THEN /\ urls' = [urls EXCEPT ![c] = Row(cl[p].url, cl[p].exp)]
               /\ device_urls' = [device_urls EXCEPT ![c] = device_urls[c] \cup rows]
               /\ cl' = [cl EXCEPT ![p].pc = "cr_cache", ![p].dev = rows]
          ELSE /\ cl' = [cl EXCEPT ![p] = Return(p, "create", c, "err", NoRec)]
               /\ UNCHANGED dbVars
    /\ UNCHANGED <<envVars, auxVars, closing, anVars, cache, bufVars, w, calls, hist>>

\* The buffered path under bufMu: append, and hand the buffer off when it is full.
\* The send blocks while the channel is full, with bufMu held.
CreateBuffer(p) ==
    /\ cl[p].pc = "cr_buf"
    /\ bufMu = Free
    /\ LET rec == BufRec(cl[p].code, cl[p].url, cl[p].exp, appends + 1)
           buf == Append(writeBuf, rec)
       IN /\ unflushed' = unflushed \cup {rec}
          /\ appends' = appends + 1
          /\ IF Len(buf) >= bufferSize
             THEN IF Len(flushChan) < chanCap
                  THEN /\ flushChan' = Append(flushChan, buf)
                       /\ writeBuf' = <<>>
                       /\ cl' = [cl EXCEPT ![p].pc = "cr_cache", ![p].dev = Nil]
                       /\ UNCHANGED bufMu
                  ELSE /\ writeBuf' = buf
                       /\ bufMu' = p
                       /\ cl' = [cl EXCEPT ![p].pc = "cr_send", ![p].dev = Nil]
                       /\ UNCHANGED flushChan
             ELSE /\ writeBuf' = buf
                  /\ cl' = [cl EXCEPT ![p].pc = "cr_cache", ![p].dev = Nil]
                  /\ UNCHANGED <<bufMu, flushChan>>
    /\ UNCHANGED <<envVars, chanCap, stamp, gauge, closing, anVars, cache, dbVars, w, calls,
                   mine, raced, expiredSeen, acct>>

\* The blocked send goes through once the channel has room.
CreateSend(p) ==
    /\ cl[p].pc = "cr_send"
    /\ Len(flushChan) < chanCap
    /\ flushChan' = Append(flushChan, writeBuf)
    /\ writeBuf' = <<>>
    /\ bufMu' = Free
    /\ cl' = [cl EXCEPT ![p].pc = "cr_cache"]
    /\ UNCHANGED <<envVars, auxVars, closing, anVars, cache, dbVars, w, calls, hist>>

\* s.cache[shortCode] = urlData under the write lock, and the return.
CreateCache(p) ==
    /\ cl[p].pc = "cr_cache"
    /\ LET c == cl[p].code
       IN /\ cache' = [cache EXCEPT ![c] = URLData(cl[p].url, cl[p].exp, cl[p].dev)]
          /\ cl' = [cl EXCEPT ![p] = [Return(p, "create", c, "ok", NoRec)
                                        EXCEPT !.url = cl[p].url]]
          /\ mine' = [mine EXCEPT ![p] = <<c, cl[p].url>>]
    /\ acct' = acct + 1
    /\ gauge' = CacheLen(cache')
    /\ UNCHANGED <<envVars, chanCap, stamp, appends, closing, anVars, dbVars, bufVars, w, calls, raced, expiredSeen, unflushed>>

(* ------------------------------ connections --------------------------- *)
\* device_urls after DELETE FROM urls WHERE short_code = c on a connection of the
\* pool: ON DELETE CASCADE removes the code's device rows where PRAGMA foreign_keys =
\* ON is in force, which initDB's one db.Exec(pragmas) sets on the connection that
\* ran it, not on the others of the pool.
Cascade(c, fk) == IF fk THEN [device_urls EXCEPT ![c] = {}] ELSE device_urls

(* --------------------------- GetRedirectData --------------------------- *)
\* The cache read under RLock and the expiry test on the copy read.
GetRedirectData(p) ==
    /\ CanStart(p)
    /\ \E c \in Codes :
          LET r == cache[c]
          IN cl' = [cl EXCEPT ![p] =
                 IF r = NoRec THEN Return(p, "get", c, "NotExist", NoRec)
                 ELSE IF Expired(r, now)
                      THEN [IdleClient EXCEPT !.pc = "g_exp_cache", !.op = "get",
                                              !.code = c, !.snap = r]
                 ELSE IF r.dev = Nil
                      THEN [IdleClient EXCEPT !.pc = "g_hyd_query", !.op = "get",
                                              !.code = c, !.snap = r]
                 ELSE Return(p, "get", c, "ok", r)]
    /\ calls' = calls + 1
    /\ raced' = NewCall(raced, p)
    /\ UNCHANGED <<envVars, auxVars, closing, anVars, cache, dbVars, bufVars, w, mine, expiredSeen, acct, unflushed>>

\* Expired: delete(s.cache, shortCode) under the write lock.
GetExpireCache(p) ==
    /\ cl[p].pc = "g_exp_cache"
    /\ LET c == cl[p].code
       IN /\ cache' = [cache EXCEPT ![c] = NoRec]
          /\ acct' = IF cache[c] # NoRec THEN acct - 1 ELSE acct
          /\ mine' = Forget(mine, c)
          /\ expiredSeen' = IF InFlightCreates(c) = {} THEN expiredSeen \cup {c}
                             ELSE expiredSeen
    /\ cl' = [cl EXCEPT ![p].pc = "g_exp_db"]
    /\ gauge' = CacheLen(cache')
    /\ UNCHANGED <<envVars, chanCap, stamp, appends, closing, anVars, dbVars, bufVars, w, calls, raced, unflushed>>

\* Expired: DELETE FROM urls WHERE short_code = ?, its error only logged.
GetExpireDB(p) ==
    /\ cl[p].pc = "g_exp_db"
    /\ LET c == cl[p].code
       IN /\ IF dbOk
             THEN /\ urls' = [urls EXCEPT ![c] = NoRow]
                  /\ \E fk \in BOOLEAN : device_urls' = Cascade(c, fk)
             ELSE UNCHANGED dbVars
          /\ cl' = [cl EXCEPT ![p] = Return(p, "get", c, "NotExist", NoRec)]
    /\ UNCHANGED <<envVars, auxVars, closing, anVars, cache, bufVars, w, calls, hist>>

\* DeviceURLs == nil: SELECT ... FROM device_urls WHERE short_code = ?; when the
\* query fails the copy read is returned as it is.
GetHydrateQuery(p) ==
    /\ cl[p].pc = "g_hyd_query"
    /\ LET c == cl[p].code
       IN cl' = [cl EXCEPT ![p] =
              IF dbOk
              THEN [cl[p] EXCEPT !.pc = "g_hyd_write", !.snap.dev = device_urls[c]]
              ELSE Return(p, "get", c, "ok", cl[p].snap)]
    /\ UNCHANGED <<envVars, auxVars, closing, anVars, cache, dbVars, bufVars, w, calls, hist>>

\* s.cache[shortCode] = urlData under the write lock, and the return.
GetHydrateWrite(p) ==
    /\ cl[p].pc = "g_hyd_write"
    /\ cache' = [cache EXCEPT ![cl[p].code] = cl[p].snap]
    /\ cl' = [cl EXCEPT ![p] = Return(p, "get", cl[p].code, "ok", cl[p].snap)]
    /\ UNCHANGED <<envVars, auxVars, closing, anVars, dbVars, bufVars, w, calls, hist>>

(* ------------------------------ DeleteURL ------------------------------ *)
\* RowsAffected, had DeleteURL counted the cache entry instead of the deleted rows.
RowsAffectedFromCache(c) == IF cache[c] # NoRec THEN 1 ELSE 0

\* result.RowsAffected() of DELETE FROM urls WHERE short_code = ?
RowsAffected(c) == IF urls[c] # NoRow THEN 1 ELSE 0

\* The DELETE statement; an error or zero rows affected returns at once.
DeleteURL(p) ==
    /\ CanStart(p)
    /\ \E c \in Codes :
          IF ~dbOk
          THEN /\ cl' = [cl EXCEPT ![p] = Return(p, "delete", c, "err", NoRec)]
               /\ mine' = [mine EXCEPT ![p] = NoMine]
               /\ UNCHANGED dbVars
          ELSE IF RowsAffected(c) = 0
          THEN /\ cl' = [cl EXCEPT ![p] = Return(p, "delete", c, "NotExist", NoRec)]
               /\ mine' = [mine EXCEPT ![p] = NoMine]
               /\ UNCHANGED dbVars
          ELSE /\ urls' = [urls EXCEPT ![c] = NoRow]
               /\ \E fk \in BOOLEAN : device_urls' = Cascade(c, fk)
               /\ cl' = [cl EXCEPT ![p] = [IdleClient EXCEPT !.pc = "d_cache",
                                              !.op = "delete", !.code = c]]
               /\ mine' = [Forget(mine, c) EXCEPT ![p] = NoMine]
    /\ calls' = calls + 1
    /\ raced' = NewCall(raced, p)
    /\ UNCHANGED <<envVars, auxVars, closing, anVars, cache, bufVars, w, expiredSeen, acct, unflushed>>

\* delete(s.cache, shortCode) under the write lock, and the return.
DeleteCache(p) ==
    /\ cl[p].pc = "d_cache"
    /\ cache' = [cache EXCEPT ![cl[p].code] = NoRec]
    /\ cl' = [cl EXCEPT ![p] = Return(p, "delete", cl[p].code, "ok", NoRec)]
    /\ mine' = Forget(mine, cl[p].code)
    /\ acct' = acct - 1
    /\ gauge' = CacheLen(cache')
    /\ UNCHANGED <<envVars, chanCap, stamp, appends, closing, anVars, dbVars, bufVars, w, calls, raced, expiredSeen, unflushed>>

(* ----------------------------- flush worker ---------------------------- *)
SeqSet(s) == {s[i] : i \in 1..Len(s)}

\* SwapOut, had triggerFlush copied the buffer without resetting it.
SwapOutKeeps ==
    /\ w' = IF Len(writeBuf) = 0 THEN IdleWorker
            ELSE [pc |-> "tf_send", batch |-> writeBuf, attempt |-> 0]
    /\ UNCHANGED writeBuf

\* triggerFlush under bufMu: nothing for an empty buffer, else copy and reset.
SwapOut ==
    IF Len(writeBuf) = 0
    THEN /\ w' = IdleWorker
         /\ UNCHANGED writeBuf
    ELSE /\ w' = [pc |-> "tf_send", batch |-> writeBuf, attempt |-> 0]
         /\ writeBuf' = <<>>

\* case <-s.flushTicker.C: triggerFlush locks bufMu, or waits for it. Close stops
\* the ticker.
TriggerFlush ==
    /\ w.pc = "idle"
    /\ closing = "no"
    /\ IF bufMu = Free
       THEN SwapOut
       ELSE /\ w' = [IdleWorker EXCEPT !.pc = "tf_lock"]
            /\ UNCHANGED writeBuf
    /\ UNCHANGED <<envVars, auxVars, closing, anVars, cache, dbVars, bufMu, flushChan, cl, calls, hist>>

\* triggerFlush gets bufMu after waiting for it.
TriggerFlushLocked ==
    /\ w.pc = "tf_lock"
    /\ bufMu = Free
    /\ SwapOut
    /\ UNCHANGED <<envVars, auxVars, closing, anVars, cache, dbVars, bufMu, flushChan, cl, calls, hist>>

\* triggerFlush's select: send the batch, or drop it with a warning (default); the
\* send panics once Close has closed the channel.
TriggerFlushSend ==
    /\ w.pc = "tf_send"
    /\ IF closing # "no"
       THEN /\ w' = [w EXCEPT !.pc = "panic"]
            /\ UNCHANGED <<flushChan, unflushed>>
       ELSE /\ IF Len(flushChan) < chanCap
               THEN /\ flushChan' = Append(flushChan, w.batch)
                    /\ UNCHANGED unflushed
               ELSE /\ unflushed' = unflushed \ SeqSet(w.batch)
                    /\ UNCHANGED flushChan
            /\ w' = IdleWorker
    /\ UNCHANGED <<envVars, auxVars, closing, anVars, cache, dbVars, writeBuf, bufMu, cl, calls,
                   mine, raced, expiredSeen, acct>>

\* case urls, ok := <-s.flushChan: flushWithRetry(urls) starts with attempt 0.
Receive ==
    /\ w.pc = "idle"
    /\ Len(flushChan) > 0
    /\ w' = [pc |-> "flush", batch |-> Head(flushChan), attempt |-> 0]
    /\ flushChan' = Tail(flushChan)
    /\ UNCHANGED <<envVars, auxVars, closing, anVars, cache, dbVars, writeBuf, bufMu, cl, calls, hist>>

\* doFlush, had its statement been INSERT OR REPLACE: rows in the way are no failure.
doFlushReplacing(batch) == dbOk

\* Whether doFlush's one multi-row INSERT commits: the database executes it and no
\* primary key is repeated, in the batch or against the rows of urls.
doFlush(batch) ==
    /\ dbOk
    /\ \A i \in 1..Len(batch) : urls[batch[i].code] = NoRow
    /\ \A i, j \in 1..Len(batch) : batch[i].code = batch[j].code => i = j

\* Retrying, had flushWithRetry given up at the first failed attempt.
RetryingNever(attempt) == FALSE

\* if attempt < maxRetries-1: sleep and continue; else log the error and return.
Retrying(attempt) == attempt < maxRetries - 1

\* One attempt of flushWithRetry: stop on success, retry while attempt <
\* maxRetries - 1, else log and discard the batch.
flushWithRetry ==
    /\ w.pc = "flush"
    /\ IF doFlush(w.batch)
       THEN /\ urls' = [c \in Codes |->
                          IF \E i \in 1..Len(w.batch) : w.batch[i].code = c
                          THEN LET i == CHOOSE i \in 1..Len(w.batch) : w.batch[i].code = c
                               IN Row(w.batch[i].url, w.batch[i].exp)
                          ELSE urls[c]]
            /\ unflushed' = unflushed \ SeqSet(w.batch)
            /\ w' = IdleWorker
       ELSE /\ w' = IF Retrying(w.attempt)
                    THEN [w EXCEPT !.attempt = w.attempt + 1]
                    ELSE IdleWorker
            /\ UNCHANGED <<urls, unflushed>>
    /\ UNCHANGED <<envVars, auxVars, closing, anVars, cache, device_urls, bufVars, cl, calls,
                   mine, raced, expiredSeen, acct>>

(* ---------------------------- handleRedirect --------------------------- *)
IsAndroid(ua) == ua = "android"

IsIOS(ua) == ua = "ios"

\* deviceURL, ok := urlData.DeviceURLs[pl]; targetURL = deviceURL.URL if ok.
DeviceURLOr(d, pl, default) ==
    IF \E x \in d : x[1] = pl THEN (CHOOSE x \in d : x[1] = pl)[2] ELSE default

\* TargetURL, had a missing entry fallen through to the web entry.
TargetURLFallsThrough(r, ua) ==
    IF r.dev = Nil THEN r.url
    ELSE IF IsAndroid(ua)
         THEN DeviceURLOr(r.dev, "android", DeviceURLOr(r.dev, "web", r.url))
    ELSE IF IsIOS(ua) THEN DeviceURLOr(r.dev, "ios", DeviceURLOr(r.dev, "web", r.url))
    ELSE DeviceURLOr(r.dev, "web", r.url)

\* The platform switch: the base url unless the User-Agent's entry is in the map.
TargetURL(r, ua) ==
    IF r.dev = Nil THEN r.url
    ELSE IF IsAndroid(ua) THEN DeviceURLOr(r.dev, "android", r.url)
    ELSE IF IsIOS(ua) THEN DeviceURLOr(r.dev, "ios", r.url)
    ELSE DeviceURLOr(r.dev, "web", r.url)

\* RedirectStatus, had the handler failed the request when the event channel is full.
RedirectStatusUnlessFull(res) ==
    IF res = "NotExist" THEN 404
    ELSE IF manager /\ Len(eventChan) >= eventChanCap THEN 503 ELSE 302

\* The status written for GetRedirectData's result: 404 for ErrNotExist, else 302.
RedirectStatus(res) == IF res = "NotExist" THEN 404 ELSE 302

\* Track, had it sent to eventChan without the default case of its select.
TrackAlwaysQueues(evt) ==
    /\ tracked' = tracked + 1
    /\ eventChan' = Append(eventChan, evt)
    /\ UNCHANGED dropped

\* Track, had the two cases of its select been swapped.
TrackSwapped(evt) ==
    /\ tracked' = tracked + 1
    /\ IF Len(eventChan) < eventChanCap
       THEN /\ dropped' = dropped \cup {evt.id}
            /\ UNCHANGED eventChan
       ELSE /\ eventChan' = Append(eventChan, evt)
            /\ UNCHANGED dropped

\* Manager.Track: a send to eventChan if it has room, else the event is dropped.
Track(evt) ==
    /\ tracked' = tracked + 1
    /\ IF Len(eventChan) < eventChanCap
       THEN /\ eventChan' = Append(eventChan, evt)
            /\ UNCHANGED dropped
       ELSE /\ dropped' = dropped \cup {evt.id}
            /\ UNCHANGED eventChan

\* handleRedirect after GetRedirectData has returned: the target, the tracked event
\* and the response.
Redirect(p) ==
    /\ cl[p].pc = "done" /\ cl[p].op = "get"
    /\ \E ua \in UserAgents :
          LET target == TargetURL(cl[p].snap, ua)
              full == Len(eventChan) >= eventChanCap
          IN IF cl[p].res = "NotExist"
             THEN /\ http' = [http EXCEPT ![p] =
                        [status |-> RedirectStatus(cl[p].res), loc |-> 0, ua |-> ua,
                         rec |-> NoRec, track |-> "none", evt |-> 0]]
                  /\ UNCHANGED <<eventChan, tracked, dropped>>
             ELSE /\ IF manager
                     THEN Track(Event(tracked + 1, cl[p].code, target))
                     ELSE UNCHANGED <<eventChan, tracked, dropped>>
                  /\ http' = [http EXCEPT ![p] =
                        [status |-> RedirectStatus(cl[p].res), loc |-> target, ua |-> ua,
                         rec |-> cl[p].snap,
                         track |-> IF ~manager THEN "off"
                                   ELSE IF full THEN "dropped" ELSE "queued",
                         evt |-> IF manager THEN tracked + 1 ELSE 0]]
    /\ cl' = [cl EXCEPT ![p].op = "redirect"]
    /\ UNCHANGED <<envVars, auxVars, closing, cache, dbVars, bufVars, w, calls, hist,
                   manager, sinksClosed, aw, ctxDone, sends>>

(* --------------------------- analytics workers ------------------------- *)
\* Send is invoked on dispatcher d for event e.
Invoke(e, d) == [sends EXCEPT ![e][d] = sends[e][d] + 1]

\* AWReceive, had the receive left the event in the channel for the other workers.
AWReceivePeek(k) ==
    /\ aw[k].pc = "idle"
    /\ Len(eventChan) > 0
    /\ aw' = [aw EXCEPT ![k] = [IdleAWorker EXCEPT !.pc = "sending",
                                                    !.evt = Head(eventChan), !.d = 1]]
    /\ sends' = Invoke(Head(eventChan).id, 1)
    /\ UNCHANGED <<envVars, auxVars, closing, cache, dbVars, bufVars, w, cl, calls, hist,
                   manager, sinksClosed, eventChan, ctxDone, http, tracked, dropped>>

\* case evt := <-m.eventChan, and Send on the first dispatcher.
AWReceive(k) ==
    /\ aw[k].pc = "idle"
    /\ Len(eventChan) > 0
    /\ LET evt == Head(eventChan)
       IN /\ eventChan' = Tail(eventChan)
          /\ aw' = [aw EXCEPT ![k] = [IdleAWorker EXCEPT !.pc = "sending", !.evt = evt,
                                                          !.d = 1]]
          /\ sends' = Invoke(evt.id, 1)
    /\ UNCHANGED <<envVars, auxVars, closing, cache, dbVars, bufVars, w, cl, calls, hist,
                   manager, sinksClosed, ctxDone, http, tracked, dropped>>

\* NextSink, had the loop returned at the first Send that fails.
NextSinkUnlessError(d, ok) == IF ok /\ d < NumSinks THEN d + 1 ELSE 0

\* The dispatcher the loop goes to after Send on dispatcher d has returned, error or
\* not: the next one, or 0 at the end of the range.
NextSink(d, ok) == IF d < NumSinks THEN d + 1 ELSE 0

\* Send returns, with an error (logged) or without; the loop goes on.
AWSendReturn(k) ==
    /\ aw[k].pc = "sending"
    /\ \E ok \in BOOLEAN :
          LET n == NextSink(aw[k].d, ok)
          IN /\ IF n # 0
                THEN /\ aw' = [aw EXCEPT ![k].d = n, ![k].failed = aw[k].failed \/ ~ok]
                     /\ sends' = Invoke(aw[k].evt.id, n)
                ELSE /\ aw' = [aw EXCEPT ![k] = IdleAWorker]
                     /\ UNCHANGED sends
    /\ UNCHANGED <<envVars, auxVars, closing, cache, dbVars, bufVars, w, cl, calls, hist,
                   manager, sinksClosed, eventChan, ctxDone, http, tracked, dropped>>

\* case <-ctx.Done(): return.
AWExit(k) ==
    /\ aw[k].pc = "idle"
    /\ ctxDone
    /\ aw' = [aw EXCEPT ![k].pc = "exited"]
    /\ UNCHANGED <<envVars, auxVars, closing, cache, dbVars, bufVars, w, cl, calls, hist,
                   manager, sinksClosed, eventChan, ctxDone, http, sends, tracked, dropped>>

\* The context given to Start is cancelled.
Cancel ==
    /\ ~ctxDone
    /\ ctxDone' = TRUE
    /\ UNCHANGED <<envVars, auxVars, closing, cache, dbVars, bufVars, w, cl, calls, hist,
                   manager, sinksClosed, eventChan, aw, http, sends, tracked, dropped>>

\* Manager.Close: d.Close() on the next dispatcher of the range; the manager waits
\* for no worker and the workers ask no dispatcher whether it is closed.
ManagerClose ==
    /\ manager
    /\ sinksClosed < NumSinks
    /\ sinksClosed' = sinksClosed + 1
    /\ UNCHANGED <<envVars, auxVars, closing, cache, dbVars, bufVars, w, cl, calls, hist,
                   manager, eventChan, aw, ctxDone, http, sends, tracked, dropped>>

worker(k) ==
    \/ AWReceive(k)
    \/ AWSendReturn(k)
    \/ AWExit(k)

(* ------------------------------- Close --------------------------------- *)
\* Store.Close up to its wait: the ticker stopped, done and flushChan closed. The
\* server has stopped serving: no call is in progress and none starts any more.
Close ==
    /\ closing = "no"
    /\ \A p \in Clients : cl[p].pc \in {"idle", "done"}
    /\ closing' = "waiting"
    /\ UNCHANGED <<envVars, auxVars, anVars, cache, dbVars, bufVars, w, cl, calls, hist>>

\* The flush worker's select once done and flushChan are closed: case <-s.done, or
\* the receive of a closed and empty channel, returns; a batch still in the channel
\* makes the receive ready too, and the select takes any ready case.
WorkerExit ==
    /\ w.pc = "idle"
    /\ closing = "waiting"
    /\ w' = [w EXCEPT !.pc = "exited"]
    /\ UNCHANGED <<envVars, auxVars, closing, anVars, cache, dbVars, bufVars, cl, calls, hist>>

\* <-s.workerDone, then s.db.Close(): the database executes no statement any more.
CloseReturn ==
    /\ closing = "waiting"
    /\ w.pc = "exited"
    /\ closing' = "returned"
    /\ dbOk' = FALSE
    /\ UNCHANGED <<now, auxVars, anVars, cache, dbVars, bufVars, w, cl, calls, hist>>

(* ------------------------------- restart ------------------------------- *)
\* loadCache: one scan of urls; every row becomes a cache entry with DeviceURLs nil.
loadCache == [c \in Codes |-> IF urls[c] = NoRow THEN NoRec
                               ELSE URLData(urls[c].url, urls[c].exp, Nil)]

\* New on the database file of a store whose Close has returned: a fresh process with
\* the cache loaded from urls, an empty buffer and channel, a new flush worker.
Restart ==
    /\ closing = "returned"
    /\ closing' = "no"
    /\ dbOk' = TRUE
    /\ cache' = loadCache
    /\ gauge' = CacheLen(cache')
    /\ writeBuf' = <<>>
    /\ bufMu' = Free
    /\ flushChan' = <<>>
    /\ w' = IdleWorker
    /\ cl' = [p \in Clients |-> IdleClient]
    /\ mine' = [p \in Clients |-> NoMine]
    /\ raced' = [p \in Clients |-> {}]
    /\ expiredSeen' = {}
    /\ acct' = CacheLen(cache')
    /\ unflushed' = {}
    /\ UNCHANGED <<now, chanCap, stamp, appends, anVars, dbVars, calls>>

(* ----------------------------- environment ----------------------------- *)
\* Time passes.
Tick ==
    /\ now < MaxTime
    /\ now' = now + 1
    /\ UNCHANGED <<dbOk, auxVars, cache, dbVars, bufVars, w, cl, calls, hist, closing, anVars>>

\* The database starts or stops failing its statements.
DBToggle ==
    /\ dbOk' = ~dbOk
    /\ UNCHANGED <<now, auxVars, cache, dbVars, bufVars, w, cl, calls, hist, closing, anVars>>

(* --------------------------- clock readings ---------------------------- *)
\* The expiry argument where its sign and size matter.
ClockExpiries == {-1, 0, 1, 2}

\* CreateShortURL's first reading of the clock: expiresAt, from time.Now().Add(expiry).
StampExpiresAt(p) ==
    /\ stamp[p].pc \in {"idle", "built"}
    /\ \E e \in ClockExpiries :
          stamp' = [stamp EXCEPT ![p] = [pc |-> "exp", expiry |-> e,
                                         expiresAt |-> ExpiresAt(e), createdAt |-> 0]]
    /\ UNCHANGED <<envVars, chanCap, appends, gauge, closing, anVars, cache, dbVars,
                   bufVars, w, cl, calls, hist>>

\* Its second reading: urlData.CreatedAt, from a later time.Now().
StampCreatedAt(p) ==
    /\ stamp[p].pc = "exp"
    /\ stamp' = [stamp EXCEPT ![p].pc = "built", ![p].createdAt = now]
    /\ UNCHANGED <<envVars, chanCap, appends, gauge, closing, anVars, cache, dbVars,
                   bufVars, w, cl, calls, hist>>

(* --------------------------- specifications ---------------------------- *)
\* The steps of the generated-code path of CreateShortURL up to its collision check;
\* past the check the path is that of a slug.
RandomStep(p) ==
    \/ CreateRandom(p)
    \/ GenRetry(p)
    \/ CreateCheck(p)

ClientStep(p) ==
    \/ CreateSlug(p)
    \/ CreateTx(p)
    \/ CreateBuffer(p)
    \/ CreateSend(p)
    \/ CreateCache(p)
    \/ GetRedirectData(p)
    \/ GetExpireCache(p)
    \/ GetExpireDB(p)
    \/ GetHydrateQuery(p)
    \/ GetHydrateWrite(p)
    \/ DeleteURL(p)
    \/ DeleteCache(p)

flushWorker ==
    \/ TriggerFlush
    \/ TriggerFlushLocked
    \/ TriggerFlushSend
    \/ Receive
    \/ flushWithRetry

\* The store with a database that executes every statement, its short codes given
\* as slugs.
Next ==
    \/ \E p \in Clients : ClientStep(p)
    \/ flushWorker
    \/ Tick

Spec == Init /\ [][Next]_vars

\* The calls' steps while the clock stands still: no record expires.
CallStep(p) ==
    \/ CreateSlug(p)
    \/ CreateTx(p)
    \/ CreateBuffer(p)
    \/ CreateSend(p)
    \/ CreateCache(p)
    \/ GetRedirectData(p)
    \/ GetHydrateQuery(p)
    \/ GetHydrateWrite(p)
    \/ DeleteURL(p)
    \/ DeleteCache(p)

\* The store with a database that may fail any statement; the clock stands still.
NextFault ==
    \/ \E p \in Clients : CallStep(p)
    \/ flushWorker
    \/ DBToggle

SpecFault == Init /\ [][NextFault]_vars

\* The store with generated short codes as well as slugs; the clock stands still.
NextRandom ==
    \/ \E p \in Clients : CallStep(p) \/ RandomStep(p)
    \/ flushWorker

SpecRandom == Init /\ [][NextRandom]_vars

\* The hand-off channel with room for one batch or for more than one; the database
\* executes every statement and the clock stands still.
ChanCaps == flushChanCap..(flushChanCap + 1)

InitOrder == InitStore /\ chanCap \in ChanCaps

NextOrder ==
    \/ \E p \in Clients : CallStep(p)
    \/ flushWorker

SpecOrder == InitOrder /\ [][NextOrder]_vars

\* The records CreateShortURL builds while time passes between its clock readings.
NextClock ==
    \/ \E p \in Clients : StampExpiresAt(p) \/ StampCreatedAt(p)
    \/ Tick

SpecClock == Init /\ [][NextClock]_vars

\* The store until Close has returned; the clock stands still.
NextClose ==
    \/ \E p \in Clients : CallStep(p)
    \/ flushWorker
    \/ Close
    \/ WorkerExit
    \/ CloseReturn

SpecClose == Init /\ [][NextClose]_vars

\* The store closed and started again on the same database file.
NextRestart ==
    \/ NextClose
    \/ Restart

SpecRestart == Init /\ [][NextRestart]_vars

\* The redirect handler and the analytics manager over a store that holds a record
\* created earlier, with its device rows loaded in the cache or not yet.
InitRedirect ==
    /\ now = 0
    /\ dbOk = TRUE
    /\ \E d \in DeviceMaps, loaded \in BOOLEAN :
          /\ cache = [c \in Codes |-> IF c = 1
                                     THEN URLData(URLOf[1], NoExpiry, IF loaded THEN d ELSE Nil)
                                     ELSE NoRec]
          /\ urls = [c \in Codes |-> IF c = 1 THEN Row(URLOf[1], NoExpiry) ELSE NoRow]
          /\ device_urls = [c \in Codes |-> IF c = 1 THEN d ELSE {}]
    /\ writeBuf = <<>>
    /\ bufMu = Free
    /\ flushChan = <<>>
    /\ w = IdleWorker
    /\ cl = [p \in Clients |-> IdleClient]
    /\ calls = 0
    /\ mine = [p \in Clients |-> NoMine]
    /\ raced = [p \in Clients |-> {}]
    /\ expiredSeen = {}
    /\ acct = 1
    /\ unflushed = {}
    /\ closing = "no"
    /\ manager \in BOOLEAN
    /\ InitAnalytics
    /\ chanCap = flushChanCap
    /\ stamp = [p \in Clients |-> IdleStamp]
    /\ appends = 0
    /\ gauge = 1

handleRedirect(p) ==
    \/ GetRedirectData(p)
    \/ GetHydrateQuery(p)
    \/ GetHydrateWrite(p)
    \/ Redirect(p)

NextRedirect ==
    \/ \E p \in Clients : handleRedirect(p)
    \/ \E k \in AWorkers : worker(k)
    \/ Cancel

SpecRedirect == InitRedirect /\ [][NextRedirect]_vars

\* The same with a manager that is closed at any moment.
InitShutdown == InitRedirect /\ manager

NextShutdown ==
    \/ NextRedirect
    \/ ManagerClose

SpecShutdown == InitShutdown /\ [][NextShutdown]_vars

(* ------------------------------ properties ----------------------------- *)
\* No client is inside a call.
Quiescent == \A p \in Clients : cl[p].pc \in {"idle", "done"}

CacheCodes == {c \in Codes : cache[c] # NoRec}

\* The codes in the write buffer, in the batches of the hand-off channel and in
\* the batch the flush worker holds.
PendingCodes ==
    SeqCodes(writeBuf) \cup UNION {SeqCodes(flushChan[i]) : i \in 1..Len(flushChan)}
                       \cup SeqCodes(w.batch)

\* C1: a GetRedirectData by the client whose create returned the code, with no
\* delete or expiry of the code since, returns a record with the created url.
ReadYourWrites ==
    \A p \in Clients :
        (cl[p].pc = "done" /\ cl[p].op = "get" /\ mine[p] # NoMine
            /\ cl[p].code = mine[p][1])
        => (cl[p].res = "ok" /\ cl[p].snap.url = mine[p][2])

\* C2: a DeleteURL that directly follows the same client's successful create of the
\* code does not return ErrNotExist.
CreateDeleteSucceeds ==
    [][\A p \in Clients :
        (DeleteURL(p) /\ cl[p].pc = "done" /\ cl[p].op = "create" /\ cl[p].res = "ok"
            /\ cl'[p].code = cl[p].code)
        => cl'[p].res # "NotExist"]_vars

\* C3: a DeleteURL of a code without a row, executed by the database, returns
\* ErrNotExist and changes neither cache, write buffer, channel nor tables; a
\* DeleteURL that finds the row leaves none, so that the next one finds none.
DeleteMissingNotExist ==
    [][\A p \in Clients :
        /\ (DeleteURL(p) /\ dbOk /\ urls[cl'[p].code] = NoRow)
            => /\ cl'[p].pc = "done" /\ cl'[p].res = "NotExist"
               /\ UNCHANGED <<cache, writeBuf, flushChan, urls, device_urls>>
        /\ (DeleteURL(p) /\ dbOk /\ urls[cl'[p].code] # NoRow)
            => /\ cl'[p].pc = "d_cache"
               /\ urls'[cl'[p].code] = NoRow
        /\ DeleteCache(p) => cl'[p].res = "ok" /\ cache'[cl[p].code] = NoRec]_vars

\* C3's case: a delete answered ErrNotExist for a code that is cached and buffered.
DeleteMissingWitness ==
    \E p \in Clients :
        /\ cl[p].pc = "done" /\ cl[p].op = "delete" /\ cl[p].res = "NotExist"
        /\ cache[cl[p].code] # NoRec
        /\ cl[p].code \in SeqCodes(writeBuf)

\* C4: a create with a slug that is a key of the cache returns an error and changes
\* neither cache, write buffer, channel nor tables.
SlugCollisionRejected ==
    [][\A p \in Clients :
        (CreateSlug(p) /\ cache[cl'[p].code] # NoRec)
        => /\ cl'[p].pc = "done" /\ cl'[p].res = "exists"
           /\ UNCHANGED <<cache, writeBuf, flushChan, urls, device_urls>>]_vars

\* C4's case: a create rejected for a slug another client's record holds.
SlugCollisionWitness ==
    \E p \in Clients :
        /\ cl[p].pc = "done" /\ cl[p].op = "create" /\ cl[p].res = "exists"
        /\ cache[cl[p].code] # NoRec
        /\ cache[cl[p].code].url # URLOf[p]

\* C5: of two creates of the same code that overlap, at most one returns success.
AtMostOneCreateSucceeds ==
    \A p, q \in Clients :
        (p # q /\ q \in raced[p]
            /\ cl[p].pc = "done" /\ cl[p].op = "create" /\ cl[p].res = "ok"
            /\ cl[q].pc = "done" /\ cl[q].op = "create" /\ cl[q].res = "ok")
        => cl[p].code # cl[q].code

\* C6: a GetRedirectData that reads a record with expires_at <= now takes the
\* expiry branch (and returns ErrNotExist); with now < expires_at it does not.
ExpiredNeverResolves ==
    [][\A p \in Clients :
        LET r == cache[cl'[p].code]
        IN (GetRedirectData(p) /\ r # NoRec /\ r.exp # NoExpiry)
           => (cl'[p].pc = "g_exp_cache" <=> r.exp <= now)]_vars

\* C7: once a GetRedirectData has removed a code as expired and returned, urls has
\* no row for the code until a create of it passes the collision check.
ExpiredRowStaysGone ==
    \A c \in expiredSeen :
        (\A p \in Clients : ~(cl[p].pc = "g_exp_db" /\ cl[p].code = c))
        => urls[c] = NoRow

\* C8: with no call in progress, the cache holds creates - deletes - expirations
\* entries.
CacheSizeAccounting == Quiescent => Cardinality(CacheCodes) = acct

\* C9: with no call in progress, every cached code is buffered, batched or has a row.
CacheOnWayToStorage ==
    Quiescent => \A c \in CacheCodes : c \in PendingCodes \/ urls[c] # NoRow

\* C10: once the buffer and the channel are empty and the flush worker is idle,
\* with a database that executes every statement, every record created through the
\* buffer has been committed by a flush or was dropped at the full channel.
BufferedEventuallyPersisted ==
    (Quiescent /\ Len(writeBuf) = 0 /\ Len(flushChan) = 0 /\ w.pc = "idle")
    => unflushed = {}

\* C11: no CreateShortURL waits for room in the hand-off channel.
HandOffNeverBlocks == \A p \in Clients : cl[p].pc # "cr_send"

\* The records appended to the write buffer whose batch the flush worker discarded:
\* neither committed, nor dropped at the channel, nor on their way any more.
Discarded == {r \in unflushed : r.code \notin PendingCodes}

\* C12: an attempt of the flush worker that persists the batch ends the work on it;
\* a failed first or second attempt is followed by another on the same batch, a
\* failed third one by the discard of the batch, the worker back at its select; an
\* attempt fails whenever the database does; no attempt touches the cache, and a
\* GetRedirectData of a cached record answers it also when the database fails the
\* device query.
FlushRetryPolicy ==
    [][/\ flushWithRetry =>
            /\ UNCHANGED cache
            /\ ~dbOk => urls' = urls
            /\ urls' # urls =>
                  /\ w' = IdleWorker
                  /\ \A i \in 1..Len(w.batch) : urls'[w.batch[i].code] # NoRow
            /\ urls' = urls =>
                  IF w.attempt + 1 < 3
                  THEN w' = [w EXCEPT !.attempt = w.attempt + 1]
                  ELSE w' = IdleWorker /\ flushChan' = flushChan
       /\ \A p \in Clients : (GetHydrateQuery(p) /\ ~dbOk) =>
            (cl'[p].pc = "done" /\ cl'[p].res = "ok" /\ cl'[p].snap = cl[p].snap)
      ]_vars

\* C12's case: with the database failing, a record of a discarded batch is answered
\* from the cache while the flush worker is at the next batch.
FlushRetryWitness ==
    \E p \in Clients, r \in Discarded :
        /\ ~dbOk
        /\ cl[p].pc = "done" /\ cl[p].op = "get" /\ cl[p].res = "ok"
        /\ cl[p].code = r.code /\ cl[p].snap.url = r.url
        /\ w.pc = "flush" /\ w.attempt > 0

\* C13: when Close has returned, no batch is left in the hand-off channel: the flush
\* worker has taken every batch that was in it when Close was called.
CloseDrainsChannel == closing = "returned" => Len(flushChan) = 0

\* C14: a redirect that tracks its event is never made to wait: the handler's step
\* is enabled whatever the workers and the channel are at; it appends the event to
\* the event channel iff the channel holds fewer than eventChanCap events, and
\* otherwise leaves the channel as it is and drops the event; the channel never
\* holds more than eventChanCap events.
TrackBoundedEnqueue ==
    [][\A p \in Clients :
        /\ (cl[p].pc = "done" /\ cl[p].op = "get") => ENABLED Redirect(p)
        /\ (Redirect(p) /\ manager /\ cl[p].res # "NotExist") =>
              LET evt == Event(tracked + 1, cl[p].code, http'[p].loc)
              IN /\ tracked' = tracked + 1
                 /\ IF Len(eventChan) < eventChanCap
                    THEN eventChan' = Append(eventChan, evt) /\ dropped' = dropped
                    ELSE eventChan' = eventChan /\ dropped' = dropped \cup {evt.id}
                 /\ Len(eventChan') <= eventChanCap
      ]_vars

\* C14's case: an event dropped at the full channel while a worker is inside a Send.
TrackDropWitness ==
    /\ dropped # {}
    /\ Len(eventChan) = eventChanCap
    /\ \E k \in AWorkers : aw[k].pc = "sending"

\* C15: when Send on a dispatcher returns, with an error or without, the worker
\* invokes Send for the same event on the next dispatcher, and is done with the
\* event only after the last one; so a worker inside Send on dispatcher d has
\* invoked Send for its event on every dispatcher up to d.
FanOutNotAborted ==
    [][\A k \in AWorkers :
        /\ aw[k].pc = "sending" =>
              \A d \in 1..aw[k].d : sends[aw[k].evt.id][d] >= 1
        /\ AWSendReturn(k) =>
              IF aw[k].d < NumSinks
              THEN /\ aw'[k].pc = "sending"
                   /\ aw'[k].evt = aw[k].evt
                   /\ aw'[k].d = aw[k].d + 1
                   /\ sends'[aw[k].evt.id][aw[k].d + 1] = sends[aw[k].evt.id][aw[k].d + 1] + 1
              ELSE aw'[k].pc = "idle" /\ sends' = sends
      ]_vars

\* C15's case: Send invoked on the last dispatcher after an earlier Send for the
\* event returned an error.
FanOutWitness ==
    \E k \in AWorkers :
        /\ aw[k].pc = "sending" /\ aw[k].failed
        /\ aw[k].d = NumSinks
        /\ sends[aw[k].evt.id][NumSinks] = 1

\* The events Track put into the event channel.
Accepted == (1..tracked) \ dropped

Queued == {eventChan[i].id : i \in 1..Len(eventChan)}

\* No worker will send anything any more: all have returned.
WorkersReturned == \A k \in AWorkers : aw[k].pc = "exited"

\* C16 as stated: at the end of a run every accepted event has had Send invoked
\* exactly once on each dispatcher.
EveryAcceptedEventSentOnce ==
    WorkersReturned => \A e \in Accepted : \A d \in Sinks : sends[e][d] = 1

\* C16, amended: Send is invoked at most once per event and dispatcher, never for
\* an event that was dropped or is still queued, and exactly once on each
\* dispatcher for an event a worker has received and is done with; a worker inside
\* Send on dispatcher d has invoked exactly the dispatchers up to d; the number of
\* Send calls is at most the number of Track calls times the number of dispatchers.
SendAtMostOncePerSink ==
    /\ \A e \in EventIds : \A d \in Sinks :
          /\ sends[e][d] <= 1
          /\ (e \notin Accepted \/ e \in Queued) => sends[e][d] = 0
          /\ \A k \in AWorkers :
                (aw[k].pc = "sending" /\ aw[k].evt.id = e) =>
                    sends[e][d] = IF d <= aw[k].d THEN 1 ELSE 0
          /\ (e \in Accepted /\ e \notin Queued
                /\ \A k \in AWorkers : aw[k].evt.id # e) => sends[e][d] = 1
    /\ Cardinality({x \in EventIds \X Sinks : sends[x[1]][x[2]] > 0}) <= tracked * NumSinks

\* C16's case: the workers have returned on cancellation; one accepted event went to
\* every dispatcher, another is left in the channel, never sent.
SendOnceWitness ==
    /\ WorkersReturned
    /\ \E e \in Accepted : e \in Queued /\ \A d \in Sinks : sends[e][d] = 0
    /\ \E e \in Accepted : \A d \in Sinks : sends[e][d] = 1

\* No Send has returned: every event Send was invoked for is still with its worker,
\* at the first dispatcher.
SinkStalled ==
    \A e \in EventIds :
        sends[e][1] > 0 =>
            \E k \in AWorkers : aw[k].pc = "sending" /\ aw[k].evt.id = e /\ aw[k].d = 1

RedirectIgnoresAnalytics ==
    \A p \in Clients :
        http[p].status # 0 =>
            /\ http[p].status = IF http[p].rec = NoRec THEN 404 ELSE 302
            /\ \A q \in Clients :
                  (http[q].status # 0 /\ http[q].rec = http[p].rec /\ http[q].ua = http[p].ua)
                  => (http[q].status = http[p].status /\ http[q].loc = http[p].loc)

\* C18's case: two redirects of the same record and User-Agent, one whose event was
\* queued and one whose event was dropped at the full channel, while a worker is
\* inside a Send that has not returned.
RedirectIgnoresWitness ==
    \E p, q \in Clients :
        /\ http[p].track = "queued" /\ http[q].track = "dropped"
        /\ http[p].rec = http[q].rec /\ http[p].ua = http[q].ua
        /\ http[p].status = 302 /\ http[q].status = 302
        /\ \E k \in AWorkers : aw[k].pc = "sending"

\* The platform class the handler puts a User-Agent in.
UAClass(ua) == IF ua = "android" THEN "android" ELSE IF ua = "ios" THEN "ios" ELSE "web"

\* The events of number i, in the event channel or with a worker.
EventsInFlight(i) ==
    {eventChan[j] : j \in {j \in 1..Len(eventChan) : eventChan[j].id = i}}
        \cup {aw[k].evt : k \in {k \in AWorkers : aw[k].evt.id = i}}

\* C19: the Location of a redirect is the url of the resolved record's device entry
\* for the User-Agent's class (android, ios, web for any other), and the base url
\* when the record has no entry for that class; a macos entry is never the source;
\* the tracked event carries the same target.
DeviceAwareTarget ==
    \A p \in Clients :
        http[p].status = 302 =>
            LET r == http[p].rec
                entry == {x \in r.dev : x[1] = UAClass(http[p].ua)}
            IN /\ entry # {} => \E x \in entry : http[p].loc = x[2]
               /\ entry = {} => http[p].loc = r.url
               /\ \A x \in r.dev : x[1] = "macos" => http[p].loc # x[2]
               /\ http[p].evt # 0 =>
                     \A ev \in EventsInFlight(http[p].evt) : ev.target = http[p].loc

\* C19's case: a macOS User-Agent and a record, its device rows loaded by this
\* request, with an ios and a macos entry but no web entry: redirected to the base
\* url, the tracked event with a worker.
DeviceAwareWitness ==
    \E p \in Clients :
        /\ http[p].status = 302 /\ http[p].ua = "macos"
        /\ http[p].rec.dev = {<<"ios", 12>>, <<"macos", 14>>}
        /\ http[p].loc = http[p].rec.url
        /\ \E k \in AWorkers : aw[k].evt.id = http[p].evt /\ aw[k].evt.target = http[p].loc

\* C20: a CreateShortURL in its generation loop can leave it: some code of the
\* configured length is not in the cache.
GenerationLoopCanEnd ==
    \A p \in Clients : cl[p].pc = "cr_gen" => \E c \in Codes : ~Exists(c)

\* C22: the flush worker never waits for the buffer mutex while the mutex holder
\* waits for room in the full hand-off channel.
NoBufferMutexDeadlock ==
    ~ /\ w.pc = "tf_lock"
      /\ \E p \in Clients : cl[p].pc = "cr_send" /\ bufMu = p
      /\ Len(flushChan) >= chanCap

\* C25: a flush attempt either leaves the urls table as it is or gives every record
\* of the batch its row, none of which was there before; an attempt on a batch with
\* a code that has a row already, or with a code twice, leaves the table as it is.
BatchPersistedAtomically ==
    [][flushWithRetry =>
        LET n == Len(w.batch)
        IN /\ \/ urls' = urls
              \/ \A i \in 1..n :
                    /\ urls[w.batch[i].code] = NoRow
                    /\ urls'[w.batch[i].code] = Row(w.batch[i].url, w.batch[i].exp)
           /\ (\E i \in 1..n : urls[w.batch[i].code] # NoRow) => urls' = urls
           /\ (\E i, j \in 1..n : i # j /\ w.batch[i].code = w.batch[j].code) => urls' = urls
           /\ \A c \in Codes : c \notin SeqCodes(w.batch) => urls'[c] = urls[c]
      ]_vars

\* C25's case: an attempt has failed on a batch of two codes, one with a row that a
\* synchronous create committed; the other record of the batch has no row.
BatchAtomicWitness ==
    /\ w.pc = "flush" /\ w.attempt > 0 /\ dbOk
    /\ \E i, j \in 1..Len(w.batch) :
          /\ w.batch[i].code # w.batch[j].code
          /\ urls[w.batch[i].code] # NoRow
          /\ urls[w.batch[j].code] = NoRow

\* C30: once the context is cancelled no worker receives a further event.
NoReceiveAfterCancel ==
    [][\A k \in AWorkers : AWReceive(k) => ~ctxDone]_vars

\* C21: a synchronous create whose deviceURLs has a platform outside the closed set
\* fails and writes nothing.
InvalidPlatformRejected ==
    [][\A p \in Clients :
        (CreateTx(p) /\ \E x \in cl[p].dev : x[1] \notin {"android", "ios", "macos", "web"})
        => (cl'[p].pc = "done" /\ cl'[p].res # "ok" /\ UNCHANGED <<urls, device_urls>>)
      ]_vars

\* C26: the transaction of a create with device URLs either fails, the call
\* returning an error with tables and cache as they were, or commits the urls row and
\* exactly the valid device rows; it fails when the database does; the cache entry
\* written after the commit has exactly the committed device rows; neither step
\* touches the write buffer or the hand-off channel.
SyncCreateAllOrNothing ==
    [][\A p \in Clients :
        LET c == cl[p].code
            valid == {x \in cl[p].dev : x[1] \in {"android", "ios", "macos", "web"} /\ x[2] # 0}
        IN /\ CreateTx(p) =>
                /\ UNCHANGED <<cache, writeBuf, flushChan>>
                /\ ~dbOk => cl'[p].res = "err"
                /\ \/ /\ cl'[p].pc = "done" /\ cl'[p].res = "err"
                      /\ UNCHANGED <<urls, device_urls>>
                   \/ /\ cl'[p].pc = "cr_cache"
                      /\ urls[c] = NoRow /\ urls'[c] = Row(cl[p].url, cl[p].exp)
                      /\ valid \subseteq device_urls'[c]
                      /\ device_urls'[c] \subseteq device_urls[c] \cup valid
                      /\ cl'[p].dev = valid
                      /\ \A o \in Codes \ {c} :
                            urls'[o] = urls[o] /\ device_urls'[o] = device_urls[o]
           /\ (CreateCache(p) /\ cl[p].dev # Nil) =>
                /\ cl'[p].res = "ok"
                /\ cache'[c] = URLData(cl[p].url, cl[p].exp, cl[p].dev)
                /\ UNCHANGED <<urls, device_urls, writeBuf, flushChan>>
      ]_vars

\* C26's case: a create with device URLs failed by the database; the code is in
\* neither table nor in the cache, nothing is buffered.
SyncCreateWitness ==
    \E p \in Clients :
        /\ cl[p].pc = "done" /\ cl[p].op = "create" /\ cl[p].res = "err"
        /\ ~dbOk
        /\ urls[cl[p].code] = NoRow /\ device_urls[cl[p].code] = {}
        /\ cache[cl[p].code] = NoRec
        /\ cl[p].code \notin PendingCodes

\* C27: every device_urls row's short_code has a row in urls.
DeviceRowsHaveParent ==
    \A c \in Codes : device_urls[c] # {} => urls[c] # NoRow

\* C29: whenever the cache write lock is not held (every state here: a step takes and
\* releases it), the stored-URLs gauge equals the number of cache entries.
GaugeInSync == gauge = CacheLen(cache)

\* The batches of a channel, laid end to end in the order they are received.
RECURSIVE Concat(_)
Concat(ss) == IF ss = <<>> THEN <<>> ELSE Head(ss) \o Concat(Tail(ss))

\* C23: the records waiting in the hand-off channel are received in the order of
\* their appends to the write buffer, across batches and within each batch.
InsertionOrderPreserved ==
    LET f == Concat(flushChan)
    IN \A i, j \in 1..Len(f) : i < j => f[i].n < f[j].n

\* The batch the flush worker holds: swapped out and not yet sent, or received and
\* not yet flushed.
HeldBatch == IF w.pc \in {"tf_send", "flush"} THEN w.batch ELSE <<>>

\* Every place a buffered record waits in, end to end.
PendingSeq == writeBuf \o Concat(flushChan) \o HeldBatch

PendingRecs == SeqSet(PendingSeq)

\* No record is in two places, and a free mutex means a buffer below its limit.
OneHolder ==
    /\ \A i, j \in 1..Len(PendingSeq) : PendingSeq[i].n = PendingSeq[j].n => i = j
    /\ bufMu = Free => Len(writeBuf) < bufferSize

\* A record leaves the buffer only into a batch, and batches leave only whole, from
\* the flush worker's hands: sent to a full channel, committed or given up.
NoneLost ==
    LET gone == PendingRecs \ PendingRecs'
    IN gone # {} => /\ w.pc \in {"tf_send", "flush"}
                    /\ gone = SeqSet(w.batch)
                    /\ w'.pc = "idle"

\* C24: each buffered record is in exactly one of the write buffer and the batches,
\* none is lost on its way from the buffer into a batch, and whenever bufMu is free
\* the buffer holds fewer than bufferSize records.
EachRecordInOneBatch == []OneHolder /\ [][NoneLost]_vars

\* A time-triggered swap-out holds a batch while a size-triggered hand-off waits in
\* the channel.
OneBatchWitness ==
    /\ w.pc = "tf_send"
    /\ Len(flushChan) > 0
    /\ Len(flushChan[1]) = bufferSize

\* C28: a record built with a positive expiry has expiresAt strictly after CreatedAt,
\* and one built with an expiry of zero or less has no expiresAt.
ExpiresAfterCreated ==
    \A p \in Clients :
        stamp[p].pc = "built"
        => IF stamp[p].expiry > 0
           THEN stamp[p].expiresAt > stamp[p].createdAt
           ELSE stamp[p].expiresAt = NoExpiry

\* C31: device URLs are written back into a cached record once: a hydration write
\* lands only on a record whose device URLs are still unloaded.
HydratedOncePerRecord ==
    [][\A p \in Clients :
          (/\ cl[p].pc = "g_hyd_write"
           /\ cl'[p].pc = "done"
           /\ cache[cl[p].code].url = cl[p].snap.url
           /\ cache[cl[p].code].exp = cl[p].snap.exp)
          => cache[cl[p].code].dev = Nil]_vars

\* What GetRedirectData answers for code c from cache m: the record, or NoRec for a
\* missing or expired one; device URLs aside.
Lookup(m, c) ==
    IF m[c] = NoRec \/ Expired(m[c], now) THEN NoRec ELSE [m[c] EXCEPT !.dev = Nil]

\* C32: a restart leaves in the cache exactly the codes with a row in urls, each with
\* device URLs unloaded, and a lookup of each answers with the url, the expiry and
\* (once hydrated) the device URLs it answered with before the restart.
RestartRoundTrip ==
    [][(closing = "returned" /\ closing' = "no")
       => \A c \in Codes :
             /\ (cache'[c] # NoRec) <=> (urls[c] # NoRow)
             /\ cache'[c].dev = Nil
             /\ urls[c] # NoRow
                => /\ Lookup(cache', c) = Lookup(cache, c)
                   /\ cache[c].dev # Nil => device_urls[c] = cache[c].dev]_vars

\* C33: whenever no call is in progress, every code with a row in urls is a key of
\* the cache.
CacheMirrorsPersisted ==
    Quiescent => \A c \in Codes : urls[c] # NoRow => cache[c] # NoRec

\* C34: a code that has no cache entry gets one only from the cache write of a
\* create of that code: no lookup puts a removed entry back.
NoResurrection ==
    [][\A c \in Codes :
          (cache[c] = NoRec /\ cache'[c] # NoRec)
          => \E p \in Clients : /\ cl[p].op = "create"
                                 /\ cl[p].pc = "cr_cache"
                                 /\ cl[p].code = c
                                 /\ cl'[p].pc = "done"]_vars

\* C35: once Close has returned, every record appended to the write buffer and not
\* dropped at a full hand-off channel has its row in urls.
ShutdownLosesNoRecord ==
    closing = "returned"
    => \A r \in unflushed : urls[r.code] = Row(r.url, r.exp)

\* C36: no worker invokes Send on a dispatcher that Manager.Close has closed.
NoSendToClosedSink ==
    [][\A e \in EventIds : \A d \in Sinks :
          sends'[e][d] > sends[e][d] => d > sinksClosed]_vars

====
